---- MODULE Spec2Model ----
(***************************************************************************)
(* telesock: one SOCKS5 session (runTCPConn) as a state machine.           *)
(*                                                                         *)
(* The session task runs Auth, Req, Run and the deferred Close; Run starts *)
(* a second task (the client->destination copy).  Every blocking read or   *)
(* write of the handler is one step.  Bytes the client sends are drawn     *)
(* when the handler reads them; a read that needs the peer to send (or to  *)
(* end its stream) is a step taken jointly with that peer.                 *)
(***************************************************************************)
EXTENDS Integers, Sequences, FiniteSets, TLC

(***************************************************************************)
(* Bounds of the model.                                                    *)
(***************************************************************************)
\* longest method list, username or password a client sends completely
MaxField == 2
\* longest configured user list
MaxUsers == 2
\* payload bytes a client sends right behind its request (pulled into the
\* buffered reader by the request's last read)
MaxAhead == 1
\* payload bytes each peer sends during a session
MaxPayload == 2
\* most bytes one read of the relay returns
MaxChunk == 2

\* sessions the listener accepts in a run
MaxSessions == 3

(***************************************************************************)
(* Sampled inputs.  Each set holds the values the code compares against    *)
(* and values that match none of them.                                     *)
(***************************************************************************)
GreetingVers == {4, 5}
MethodBytes  == {0, 2, 255}
SubVers      == {1, 5}
TextBytes    == {97, 98}
ReqHeaders   == [Ver : {4, 5}, Cmd : {1, 2}, Rsv : {0, 1}, Atyp : {1, 3}]
AddrFrames   == { <<127, 0, 0, 1, 0, 80>>, <<10, 1, 2, 3, 1, 187>> }
LocalAddrs   == { [IP |-> <<192, 168, 0, 2>>, Port |-> 50000],
                  [IP |-> <<10, 0, 0, 7>>,    Port |-> 255] }

Range(s) == { s[i] : i \in 1..Len(s) }
Min(a, b) == IF a < b THEN a ELSE b

\* all sequences over S of length n
RECURSIVE SeqsOfLen(_, _)
SeqsOfLen(S, n) ==
    IF n = 0 THEN { <<>> }
    ELSE { Append(s, x) : s \in SeqsOfLen(S, n - 1), x \in S }

SeqsUpTo(S, n) == UNION { SeqsOfLen(S, k) : k \in 0..n }

\* the configured users: usernames and passwords of one byte each
ConfUsers == [Username : SeqsOfLen(TextBytes, 1), Password : SeqsOfLen(TextBytes, 1)]
Configs   == SeqsUpTo(ConfUsers, MaxUsers)

(***************************************************************************)
(* crypto/subtle.ConstantTimeCompare on byte slices: 0 when the lengths    *)
(* differ, else the bytes are XORed pairwise, the results ORed, and the    *)
(* answer is 1 exactly when the accumulated byte is 0.                     *)
(***************************************************************************)
RECURSIVE Xor8(_, _, _)
Xor8(a, b, bits) ==
    IF bits = 0 THEN 0
    ELSE (IF (a % 2) # (b % 2) THEN 1 ELSE 0) + 2 * Xor8(a \div 2, b \div 2, bits - 1)

RECURSIVE Or8(_, _, _)
Or8(a, b, bits) ==
    IF bits = 0 THEN 0
    ELSE (IF (a % 2) = 1 \/ (b % 2) = 1 THEN 1 ELSE 0) + 2 * Or8(a \div 2, b \div 2, bits - 1)

RECURSIVE XorFold(_, _, _, _)
XorFold(x, y, i, v) ==
    IF i > Len(x) THEN v
    ELSE XorFold(x, y, i + 1, Or8(v, Xor8(x[i], y[i], 8), 8))

ConstantTimeCompare(x, y) ==
    IF Len(x) # Len(y) THEN 0
    ELSE IF XorFold(x, y, 1, 0) = 0 THEN 1 ELSE 0

(***************************************************************************)
(* Auth, lines 146-153: the scan of the configured users.  st is           *)
(* [found, log]; log records the comparisons in the order they are made.   *)
(***************************************************************************)
ScanStep(st, i, user, username, password) ==
    LET usernameOk == ConstantTimeCompare(username, user.Username) = 1
        passwordOk == ConstantTimeCompare(password, user.Password) = 1
    IN  [found |-> st.found \/ (usernameOk /\ passwordOk),
         log   |-> st.log \o << <<i, "username">>, <<i, "password">> >>]

RECURSIVE ScanFrom(_, _, _, _, _)
ScanFrom(users, i, username, password, st) ==
    IF i > Len(users) THEN st
    ELSE ScanFrom(users, i + 1, username, password,
                  ScanStep(st, i, users[i], username, password))

\* a scan that stops at the first matching user
RECURSIVE ScanFromBreak(_, _, _, _, _)
ScanFromBreak(users, i, username, password, st) ==
    IF i > Len(users) \/ st.found THEN st
    ELSE ScanFromBreak(users, i + 1, username, password,
                       ScanStep(st, i, users[i], username, password))

ScanUsersBreak(users, username, password) ==
    ScanFromBreak(users, 1, username, password, [found |-> FALSE, log |-> <<>>])

\* a scan that accepts a username of one user with a password of another
ScanUsersAnyPair(users, username, password) ==
    [found |-> /\ \E i \in 1..Len(users) :
                     ConstantTimeCompare(username, users[i].Username) = 1
               /\ \E j \in 1..Len(users) :
                     ConstantTimeCompare(password, users[j].Password) = 1,
     log   |-> ScanFrom(users, 1, username, password,
                        [found |-> FALSE, log |-> <<>>]).log]

ScanUsers(users, username, password) ==
    ScanFrom(users, 1, username, password, [found |-> FALSE, log |-> <<>>])

(***************************************************************************)
(* Auth, lines 88-94: the method the server selects.                       *)
(***************************************************************************)
RECURSIVE SelectFrom(_, _)
SelectFrom(methods, i) ==
    IF i > Len(methods) THEN 255
    ELSE IF methods[i] = 2 THEN methods[i]
    ELSE SelectFrom(methods, i + 1)

\* a selection that looks at the first offered method only
SelectMethodFirst(methods) ==
    IF Len(methods) > 0 /\ methods[1] = 2 THEN 2 ELSE 255

SelectMethod(methods) == SelectFrom(methods, 1)

\* a check that lets every version pass
VersionOkAny(v) == TRUE

\* Auth, line 73
VersionOk(v) == v = 5

\* a check that lets every sub-negotiation version pass
SubVerOkAny(v) == TRUE

\* Auth, line 111
SubVerOk(v) == v = 1

\* a check that lets a zero length pass
LenOkAny(n) == TRUE

\* Auth, lines 121 and 136
LenOk(n) == n # 0

\* a status that is success whatever the scan found
StatusOfAlwaysOk(found) == 0

\* Auth, lines 155-158: the status byte b[1]
StatusOf(found) == IF found THEN 0 ELSE 1

(***************************************************************************)
(* encoding/binary, big endian: the 6 bytes of ipv4Addr.                   *)
(***************************************************************************)
DecodeAddr(b) ==
    [IP |-> SubSeq(b, 1, 4), Port |-> b[5] * 256 + b[6]]

\* the port written low byte first
EncodeAddrLittle(a) ==
    a.IP \o << a.Port % 256, (a.Port \div 256) % 256 >>

EncodeAddr(a) ==
    a.IP \o << (a.Port \div 256) % 256, a.Port % 256 >>

\* the 4 bytes of res
EncodeRes(r) == << r.Ver, r.Rep, r.Rsv, r.Atyp >>

(***************************************************************************)
(* runTCPConn, lines 34-40: where the session goes when a stage returns.   *)
(***************************************************************************)
\* a runTCPConn that ignores what Auth returned
AfterAuthAlways(ok) == "ReqHeader"

AfterAuth(ok) == IF ok THEN "ReqHeader" ELSE "Close"

\* a runTCPConn that ignores what Req returned
AfterReqAlways(ok) == "Run"

AfterReq(ok) == IF ok THEN "Run" ELSE "Close"


(***************************************************************************)
(* net.TCPConn.Close, called at socks5.go lines 57 and 60: the connection  *)
(* is released by the first call; a later call finds it closed and returns *)
(* an error.  A connection is "none", "open" or "closed".                  *)
(***************************************************************************)
NetCloseReleases(conn) == IF conn = "open" THEN 1 ELSE 0

NetClose(conn) == IF conn = "none" THEN "none" ELSE "closed"

(***************************************************************************)
(* State.                                                                  *)
(***************************************************************************)
VARIABLES
    conf,         \* tcp.conf.Users
    pc,           \* position of the session task (runTCPConn)
    stages,       \* the stages runTCPConn has entered, in order
    authRet,      \* what Auth returned: "pending", "true", "false"
    reqRet,       \* what Req returned
    client,       \* the client connection: "open" or "closed" (by this side)
    clientUp,     \* FALSE once the client has reset the connection
    clientCloses, \* releases of the client connection
    reads,        \* the protocol fields the handler has read from clientR, in order
    out,          \* bytes written to clientW and accepted
    buf,          \* payload bytes waiting in clientR's buffer
    ver,          \* Auth: ver
    methods,      \* Auth: methods
    method,       \* Auth: method
    len,          \* Auth: len
    username,     \* Auth: username
    password,     \* Auth: password
    scan,         \* Auth: userFound and the comparisons made
    verifyCalls,  \* runs of the credential scan
    req,          \* Req: req
    dstBytes,     \* the 6 bytes the client sent as address and port
    raddr,        \* Req: raddr
    dialed,       \* the address net.DialTCP was called with
    laddr,        \* Req: laddr
    dialRes,      \* outcome of net.DialTCP: "none", "ok", "err"
    dials,        \* calls of net.DialTCP
    server,       \* tcp.server: "nil" or "set"
    dest,         \* the dialed connection: "none", "open", "closed"
    destUp,       \* FALSE once the destination has reset the connection
    destCloses,   \* releases of the destination connection
    closeCalls,   \* invocations of TCPConn.Close
    c2s,          \* position of the client->destination copy task
    chunkC,       \* bytes that task has read and not yet written
    chunkS,       \* bytes the destination->client copy has read and not yet written
    toDest,       \* bytes written to the destination and accepted
    csent,        \* payload bytes taken from the client so far
    ssent,        \* payload bytes taken from the destination so far
    ahead,        \* payload bytes that were in clientR's buffer when Req ended
    ctx,          \* runTCPListener: ctx, "live" or "done"
    lsn,          \* runTCPListener: the listener tcp, "open" or "closed"
    lpc,          \* position of runTCPListener
    wg,           \* runTCPListener: the counter of wg
    sess          \* the accepted sessions: "none", "running" or "done" each

ioVars    == << client, clientUp, clientCloses, reads, out, buf >>
authVars  == << ver, methods, method, len, username, password, scan, verifyCalls >>
reqVars   == << req, dstBytes, raddr, dialed, laddr, dialRes, dials >>
destVars  == << server, dest, destUp, destCloses >>
relayVars == << c2s, chunkC, chunkS, toDest, csent, ssent, ahead >>
ctlVars   == << conf, pc, stages, authRet, reqRet, closeCalls >>

lsnVars   == << ctx, lsn, lpc, wg, sess >>

\* the state of one session
connVars == << ctlVars, ioVars, authVars, reqVars, destVars, relayVars >>

vars == << connVars, lsnVars >>

NoScan == [found |-> FALSE, log |-> <<>>]
NoReq  == [Ver |-> 0, Cmd |-> 0, Rsv |-> 0, Atyp |-> 0]
NoAddr == [IP |-> <<0, 0, 0, 0>>, Port |-> 0]
NoBytes == <<0, 0, 0, 0, 0, 0>>

\* NewTCPConn, lines 43-53, and runTCPConn up to its call of Auth
Init ==
    /\ conf \in Configs
    /\ pc = "AuthVer"
    /\ stages = << "Auth" >>
    /\ authRet = "pending"
    /\ reqRet = "pending"
    /\ client = "open"
    /\ clientUp = TRUE
    /\ clientCloses = 0
    /\ reads = <<>>
    /\ out = <<>>
    /\ buf = <<>>
    /\ ver = 0
    /\ methods = <<>>
    /\ method = 0
    /\ len = 0
    /\ username = <<>>
    /\ password = <<>>
    /\ scan = NoScan
    /\ verifyCalls = 0
    /\ req = NoReq
    /\ dstBytes = NoBytes
    /\ raddr = NoAddr
    /\ dialed = NoAddr
    /\ laddr = NoAddr
    /\ dialRes = "none"
    /\ dials = 0
    /\ server = "nil"
    /\ dest = "none"
    /\ destUp = TRUE
    /\ destCloses = 0
    /\ closeCalls = 0
    /\ c2s = "idle"
    /\ chunkC = <<>>
    /\ chunkS = <<>>
    /\ toDest = <<>>
    /\ csent = 0
    /\ ssent = 0
    /\ ahead = 0
    /\ ctx = "live"
    /\ lsn = "open"
    /\ lpc = "accept"
    /\ wg = 0
    /\ sess = [i \in 1..MaxSessions |-> "none"]

\* the stage a position of runTCPConn belongs to
StageOf(p) ==
    CASE p = "ReqHeader" -> "Req"
      [] p = "Run"       -> "Run"
      [] p = "Close"     -> "Close"
      [] OTHER           -> "Auth"

\* Auth returns ok to runTCPConn, lines 34-36
AuthReturns(ok) ==
    /\ authRet' = (IF ok THEN "true" ELSE "false")
    /\ pc' = AfterAuth(ok)
    /\ stages' = Append(stages, StageOf(AfterAuth(ok)))
    /\ UNCHANGED << lsnVars, conf, reqRet, closeCalls >>

\* Req returns ok to runTCPConn, lines 37-40
ReqReturns(ok) ==
    /\ reqRet' = (IF ok THEN "true" ELSE "false")
    /\ pc' = AfterReq(ok)
    /\ stages' = Append(stages, StageOf(AfterReq(ok)))
    /\ UNCHANGED << lsnVars, conf, authRet, closeCalls >>

\* a stage moves on to its next step
Goto(p) ==
    /\ pc' = p
    /\ UNCHANGED << lsnVars, conf, stages, authRet, reqRet, closeCalls >>

\* a read of the client stream can return bytes the client sends now
CanRead == client = "open" /\ clientUp

\* a write to the client stream is accepted
CanWrite == client = "open" /\ clientUp

(***************************************************************************)
(* Auth, lines 65-171.                                                     *)
(***************************************************************************)
\* lines 68-76: the version byte arrives
AuthVer ==
    /\ pc = "AuthVer"
    /\ CanRead
    /\ \E v \in GreetingVers :
          /\ ver' = v
          /\ reads' = Append(reads, "VER")
          /\ IF VersionOk(v) THEN Goto("AuthNMethods") ELSE AuthReturns(FALSE)
    /\ UNCHANGED << client, clientUp, clientCloses, out, buf >>
    /\ UNCHANGED << methods, method, len, username, password, scan, verifyCalls >>
    /\ UNCHANGED << reqVars, destVars, relayVars >>

\* a read of Auth ends with an error or at the end of the stream:
\* lines 69-72, 79-82, 84-87, 107-110, 117-120, 126-129, 132-135, 141-144
AuthReadFails ==
    /\ pc \in {"AuthVer", "AuthNMethods", "AuthMethods", "AuthSubVer",
               "AuthULen", "AuthUser", "AuthPLen", "AuthPass"}
    /\ pc = "AuthMethods" => len > 0
    /\ AuthReturns(FALSE)
    /\ UNCHANGED << ioVars, authVars, reqVars, destVars, relayVars >>

\* lines 78-83: the method count arrives
AuthNMethods ==
    /\ pc = "AuthNMethods"
    /\ CanRead
    /\ \E n \in 0..(MaxField + 1) :
          /\ len' = n
          /\ reads' = Append(reads, "NMETHODS")
    /\ Goto("AuthMethods")
    /\ UNCHANGED << client, clientUp, clientCloses, out, buf >>
    /\ UNCHANGED << ver, methods, method, username, password, scan, verifyCalls >>
    /\ UNCHANGED << reqVars, destVars, relayVars >>

\* lines 83-87: the methods arrive
AuthMethods ==
    /\ pc = "AuthMethods"
    /\ len = 0 \/ CanRead
    /\ len <= MaxField
    /\ \E ms \in SeqsOfLen(MethodBytes, len) :
          /\ methods' = ms
          /\ reads' = Append(reads, "METHODS")
    /\ Goto("AuthSelect")
    /\ UNCHANGED << client, clientUp, clientCloses, out, buf >>
    /\ UNCHANGED << ver, method, len, username, password, scan, verifyCalls >>
    /\ UNCHANGED << reqVars, destVars, relayVars >>

\* lines 88-104: select the method and write the method reply
AuthSelect ==
    /\ pc = "AuthSelect"
    /\ method' = SelectMethod(methods)
    /\ IF CanWrite
       THEN /\ out' = out \o << 5, method' >>
            /\ IF method' = 255 THEN AuthReturns(FALSE) ELSE Goto("AuthSubVer")
       ELSE /\ out' = out
            /\ AuthReturns(FALSE)
    /\ UNCHANGED << client, clientUp, clientCloses, reads, buf >>
    /\ UNCHANGED << ver, methods, len, username, password, scan, verifyCalls >>
    /\ UNCHANGED << reqVars, destVars, relayVars >>

\* lines 106-114: the sub-negotiation version arrives; methods and method
\* are not used past line 102
AuthSubVer ==
    /\ pc = "AuthSubVer"
    /\ CanRead
    /\ \E v \in SubVers :
          /\ ver' = v
          /\ reads' = Append(reads, "AUTHVER")
          /\ IF SubVerOk(v) THEN Goto("AuthULen") ELSE AuthReturns(FALSE)
    /\ methods' = <<>>
    /\ method' = 0
    /\ UNCHANGED << client, clientUp, clientCloses, out, buf >>
    /\ UNCHANGED << len, username, password, scan, verifyCalls >>
    /\ UNCHANGED << reqVars, destVars, relayVars >>

\* lines 116-124 and 131-139: a length byte arrives
AuthLen(at, next) ==
    /\ pc = at
    /\ CanRead
    /\ \E n \in 0..(MaxField + 1) :
          /\ len' = n
          /\ reads' = Append(reads, IF at = "AuthULen" THEN "ULEN" ELSE "PLEN")
          /\ IF LenOk(n) THEN Goto(next) ELSE AuthReturns(FALSE)
    /\ UNCHANGED << client, clientUp, clientCloses, out, buf >>
    /\ UNCHANGED << ver, methods, method, username, password, scan, verifyCalls >>
    /\ UNCHANGED << reqVars, destVars, relayVars >>

AuthULen == AuthLen("AuthULen", "AuthUser")

AuthPLen == AuthLen("AuthPLen", "AuthPass")

\* lines 125-129: the username arrives
AuthUser ==
    /\ pc = "AuthUser"
    /\ CanRead
    /\ len <= MaxField
    /\ \E u \in SeqsOfLen(TextBytes, len) :
          /\ username' = u
          /\ reads' = Append(reads, "UNAME")
    /\ Goto("AuthPLen")
    /\ UNCHANGED << client, clientUp, clientCloses, out, buf >>
    /\ UNCHANGED << ver, methods, method, len, password, scan, verifyCalls >>
    /\ UNCHANGED << reqVars, destVars, relayVars >>

\* lines 140-144: the password arrives
AuthPass ==
    /\ pc = "AuthPass"
    /\ CanRead
    /\ len <= MaxField
    /\ \E p \in SeqsOfLen(TextBytes, len) :
          /\ password' = p
          /\ reads' = Append(reads, "PASSWD")
    /\ Goto("AuthVerify")
    /\ UNCHANGED << client, clientUp, clientCloses, out, buf >>
    /\ UNCHANGED << ver, methods, method, len, username, scan, verifyCalls >>
    /\ UNCHANGED << reqVars, destVars, relayVars >>

\* lines 146-171: scan the users, write the status, return
AuthVerify ==
    /\ pc = "AuthVerify"
    /\ scan' = ScanUsers(conf, username, password)
    /\ verifyCalls' = verifyCalls + 1
    /\ IF CanWrite
       THEN /\ out' = out \o << 1, StatusOf(scan'.found) >>
            /\ AuthReturns(StatusOf(scan'.found) = 0)
       ELSE /\ out' = out
            /\ AuthReturns(FALSE)
    /\ UNCHANGED << client, clientUp, clientCloses, reads, buf >>
    /\ UNCHANGED << ver, methods, method, len, username, password >>
    /\ UNCHANGED << reqVars, destVars, relayVars >>


(***************************************************************************)
(* Req, lines 192-260.                                                     *)
(***************************************************************************)
\* a check that lets every header pass
HeaderOkAny(h) == TRUE

\* lines 201-216: the checks of the request header
HeaderOk(h) == h.Ver = 5 /\ h.Cmd = 1 /\ h.Rsv = 0 /\ h.Atyp = 1

\* Auth has returned: its locals are gone
AuthLocalsGone ==
    /\ ver' = 0 /\ methods' = <<>> /\ method' = 0 /\ len' = 0
    /\ username' = <<>> /\ password' = <<>> /\ scan' = NoScan

\* Req has returned: its locals are gone
ReqLocalsGone ==
    /\ req' = NoReq /\ dstBytes' = NoBytes
    /\ raddr' = NoAddr /\ dialed' = NoAddr /\ laddr' = NoAddr

\* lines 195-216: the request header arrives
ReqHeader ==
    /\ pc = "ReqHeader"
    /\ CanRead
    /\ \E h \in ReqHeaders :
          /\ req' = h
          /\ reads' = Append(reads, "REQ")
          /\ IF HeaderOk(h) THEN Goto("ReqAddr") ELSE ReqReturns(FALSE)
    /\ AuthLocalsGone
    /\ UNCHANGED << client, clientUp, clientCloses, out, buf >>
    /\ UNCHANGED << dstBytes, raddr, dialed, laddr, dialRes, dials >>
    /\ UNCHANGED << verifyCalls, destVars, relayVars >>

\* lines 196-200 and 219-223: a read of Req ends with an error or at the end
\* of the stream
ReqReadFails ==
    /\ pc \in {"ReqHeader", "ReqAddr"}
    /\ ReqReturns(FALSE)
    /\ UNCHANGED << ioVars, authVars, reqVars, destVars, relayVars >>

\* lines 218-232: the address and port arrive; the read that brings them may
\* pull payload the client has already sent into clientR's buffer
ReqAddr ==
    /\ pc = "ReqAddr"
    /\ CanRead
    /\ \E a \in AddrFrames :
          /\ dstBytes' = a
          /\ raddr' = DecodeAddr(a)
          /\ reads' = Append(reads, "DST")
    /\ \E k \in 0..Min(MaxAhead, MaxPayload) :
          /\ buf' = [i \in 1..k |-> i]
          /\ csent' = k
          /\ ahead' = k
    /\ Goto("ReqDial")
    /\ UNCHANGED << client, clientUp, clientCloses, out >>
    /\ UNCHANGED << req, dialed, laddr, dialRes, dials >>
    /\ UNCHANGED << c2s, chunkC, chunkS, toDest, ssent >>
    /\ UNCHANGED << authVars, destVars >>

\* lines 225-228 and 237: the reply header
ResOf(rep) == [Ver |-> 5, Rep |-> rep, Rsv |-> 0, Atyp |-> 1]

\* lines 234-240: the dial fails; the reply is written and its error ignored
ReqDialFails ==
    /\ pc = "ReqDial"
    /\ dials' = dials + 1
    /\ dialRes' = "err"
    /\ out' = (IF CanWrite THEN out \o EncodeRes(ResOf(1)) ELSE out)
    /\ ReqReturns(FALSE)
    /\ UNCHANGED << client, clientUp, clientCloses, reads, buf >>
    /\ dialed' = raddr
    /\ UNCHANGED << req, dstBytes, raddr, laddr >>
    /\ UNCHANGED << authVars, destVars, relayVars >>

\* line 234: the dial succeeds
ReqDialOk ==
    /\ pc = "ReqDial"
    /\ dials' = dials + 1
    /\ dialRes' = "ok"
    /\ dest' = "open"
    /\ \E a \in LocalAddrs : laddr' = a
    /\ Goto("ReqWriteRes")
    /\ UNCHANGED << server, destUp, destCloses >>
    /\ dialed' = raddr
    /\ UNCHANGED << req, dstBytes, raddr >>
    /\ UNCHANGED << ioVars, authVars, relayVars >>

\* lines 242-247: write the reply header, then store the connection
ReqWriteRes ==
    /\ pc = "ReqWriteRes"
    /\ IF CanWrite
       THEN /\ out' = out \o EncodeRes(ResOf(0))
            /\ server' = "set"
            /\ Goto("ReqWriteAddr")
       ELSE /\ out' = out
            /\ server' = server
            /\ ReqReturns(FALSE)
    /\ UNCHANGED << client, clientUp, clientCloses, reads, buf >>
    /\ UNCHANGED << dest, destUp, destCloses >>
    /\ UNCHANGED << authVars, reqVars, relayVars >>

\* a Req that returns true with the bound address and port unwritten
ReqWriteAddrSkips ==
    /\ pc = "ReqWriteAddr"
    /\ out' = out
    /\ ReqReturns(TRUE)
    /\ UNCHANGED << client, clientUp, clientCloses, reads, buf >>
    /\ UNCHANGED << authVars, reqVars, destVars, relayVars >>

\* lines 248-259: write the bound address and port
ReqWriteAddr ==
    /\ pc = "ReqWriteAddr"
    /\ IF CanWrite
       THEN /\ out' = out \o EncodeAddr(laddr)
            /\ ReqReturns(TRUE)
       ELSE /\ out' = out
            /\ ReqReturns(FALSE)
    /\ UNCHANGED << client, clientUp, clientCloses, reads, buf >>
    /\ UNCHANGED << authVars, reqVars, destVars, relayVars >>

(***************************************************************************)
(* Run, lines 262-271.                                                     *)
(***************************************************************************)
\* a read of the destination connection can return what the peer sends now
CanReadDest == server = "set" /\ dest = "open" /\ destUp

\* a write to the destination connection is accepted
CanWriteDest == server = "set" /\ dest = "open" /\ destUp

\* lines 263-267: start the client->destination copy, then copy the other way
Run ==
    /\ pc = "Run"
    /\ c2s' = "flush"
    /\ Goto("CopyRead")
    /\ ReqLocalsGone
    /\ UNCHANGED << chunkC, chunkS, toDest, csent, ahead, ssent >>
    /\ UNCHANGED << dialRes, dials >>
    /\ UNCHANGED << ioVars, authVars, destVars >>

\* line 271: Run returns to runTCPConn, whose deferred Close runs next
RunReturns ==
    /\ pc' = "Close"
    /\ stages' = Append(stages, "Close")
    /\ UNCHANGED << lsnVars, conf, authRet, reqRet, closeCalls >>

\* line 268: the destination sends bytes and the copy reads them
CopyRead ==
    /\ pc = "CopyRead"
    /\ CanReadDest
    /\ ssent < MaxPayload
    /\ \E k \in 1..Min(MaxChunk, MaxPayload - ssent) :
          /\ chunkS' = [i \in 1..k |-> 100 + ssent + i]
          /\ ssent' = ssent + k
    /\ Goto("CopyWrite")
    /\ UNCHANGED << c2s, chunkC, toDest, csent, ahead >>
    /\ UNCHANGED << ioVars, authVars, reqVars, destVars >>

\* line 268: the destination ends its stream and the copy's read returns
CopyReadEOF ==
    /\ pc = "CopyRead"
    /\ CanReadDest
    /\ RunReturns
    /\ UNCHANGED << ioVars, authVars, reqVars, destVars, relayVars >>

\* lines 268-270: the copy's read fails on a connection that is reset
CopyReadErr ==
    /\ pc = "CopyRead"
    /\ ~CanReadDest
    /\ RunReturns
    /\ UNCHANGED << ioVars, authVars, reqVars, destVars, relayVars >>

\* lines 268-270: the copy writes what it read to the client
CopyWrite ==
    /\ pc = "CopyWrite"
    /\ IF CanWrite
       THEN /\ out' = out \o chunkS
            /\ Goto("CopyRead")
       ELSE /\ out' = out
            /\ RunReturns
    /\ chunkS' = <<>>
    /\ UNCHANGED << client, clientUp, clientCloses, reads, buf >>
    /\ UNCHANGED << c2s, chunkC, toDest, csent, ahead, ssent >>
    /\ UNCHANGED << authVars, reqVars, destVars >>

\* a copy task that reads the connection itself and so leaves behind what
\* clientR has buffered
C2SFlushLost ==
    /\ c2s = "flush"
    /\ c2s' = "read"
    /\ toDest' = toDest
    /\ buf' = <<>>
    /\ UNCHANGED << client, clientUp, clientCloses, reads, out >>
    /\ UNCHANGED << chunkC, chunkS, csent, ahead, ssent >>
    /\ UNCHANGED << lsnVars, ctlVars, authVars, reqVars, destVars >>

\* line 264: the copy task first writes what clientR has buffered
C2SFlush ==
    /\ c2s = "flush"
    /\ IF buf = <<>>
       THEN /\ c2s' = "read"
            /\ toDest' = toDest
       ELSE IF CanWriteDest
       THEN /\ toDest' = toDest \o buf
            /\ c2s' = "read"
       ELSE /\ c2s' = "done"
            /\ toDest' = toDest
    /\ buf' = <<>>
    /\ UNCHANGED << client, clientUp, clientCloses, reads, out >>
    /\ UNCHANGED << chunkC, chunkS, csent, ahead, ssent >>
    /\ UNCHANGED << lsnVars, ctlVars, authVars, reqVars, destVars >>

\* line 264: the client sends bytes and the copy task reads them
C2SRead ==
    /\ c2s = "read"
    /\ CanRead
    /\ csent < MaxPayload
    /\ \E k \in 1..Min(MaxChunk, MaxPayload - csent) :
          /\ chunkC' = [i \in 1..k |-> csent + i]
          /\ csent' = csent + k
    /\ c2s' = "write"
    /\ UNCHANGED << ioVars >>
    /\ UNCHANGED << chunkS, toDest, ssent, ahead >>
    /\ UNCHANGED << lsnVars, ctlVars, authVars, reqVars, destVars >>

\* line 264: the client ends its stream and the copy task's read returns
C2SReadEOF ==
    /\ c2s = "read"
    /\ CanRead
    /\ c2s' = "done"
    /\ UNCHANGED << chunkC, chunkS, toDest, csent, ahead, ssent >>
    /\ UNCHANGED << lsnVars, ctlVars, ioVars, authVars, reqVars, destVars >>

\* lines 264-266: the copy task's read fails on a connection that is reset
\* or closed
C2SReadErr ==
    /\ c2s = "read"
    /\ ~CanRead
    /\ c2s' = "done"
    /\ UNCHANGED << chunkC, chunkS, toDest, csent, ahead, ssent >>
    /\ UNCHANGED << lsnVars, ctlVars, ioVars, authVars, reqVars, destVars >>

\* a write that passes on the first byte of what was read and drops the rest
C2SWriteShort ==
    /\ c2s = "write"
    /\ IF CanWriteDest
       THEN /\ toDest' = Append(toDest, Head(chunkC))
            /\ c2s' = "read"
       ELSE /\ toDest' = toDest
            /\ c2s' = "done"
    /\ chunkC' = <<>>
    /\ UNCHANGED << chunkS, csent, ahead, ssent >>
    /\ UNCHANGED << lsnVars, ctlVars, ioVars, authVars, reqVars, destVars >>

\* lines 264-266: the copy task writes what it read to the destination
C2SWrite ==
    /\ c2s = "write"
    /\ IF CanWriteDest
       THEN /\ toDest' = toDest \o chunkC
            /\ c2s' = "read"
       ELSE /\ toDest' = toDest
            /\ c2s' = "done"
    /\ chunkC' = <<>>
    /\ UNCHANGED << chunkS, csent, ahead, ssent >>
    /\ UNCHANGED << lsnVars, ctlVars, ioVars, authVars, reqVars, destVars >>

(***************************************************************************)
(* Close, lines 55-63.                                                     *)
(***************************************************************************)
\* a Close that leaves the client stream open when no destination is stored
CloseBodyServerOnly ==
    /\ closeCalls' = closeCalls + 1
    /\ IF server # "nil"
       THEN /\ destCloses' = destCloses + NetCloseReleases(dest)
            /\ dest' = NetClose(dest)
            /\ clientCloses' = clientCloses + NetCloseReleases(client)
            /\ client' = NetClose(client)
       ELSE UNCHANGED << dest, destCloses, client, clientCloses >>
    /\ UNCHANGED << server, destUp, clientUp, reads, out, buf >>

\* a Close that closes the destination connection and not the client stream
CloseBodyDestOnly ==
    /\ closeCalls' = closeCalls + 1
    /\ IF server # "nil"
       THEN /\ destCloses' = destCloses + NetCloseReleases(dest)
            /\ dest' = NetClose(dest)
       ELSE UNCHANGED << dest, destCloses >>
    /\ UNCHANGED << client, clientCloses >>
    /\ UNCHANGED << server, destUp, clientUp, reads, out, buf >>

CloseBody ==
    /\ closeCalls' = closeCalls + 1
    /\ IF server # "nil"
       THEN /\ destCloses' = destCloses + NetCloseReleases(dest)
            /\ dest' = NetClose(dest)
       ELSE UNCHANGED << dest, destCloses >>
    /\ clientCloses' = clientCloses + NetCloseReleases(client)
    /\ client' = NetClose(client)
    /\ UNCHANGED << server, destUp, clientUp, reads, out, buf >>

\* runTCPConn, line 32: the deferred Close, after which the session task ends
Close ==
    /\ pc = "Close"
    /\ CloseBody
    /\ pc' = "Done"
    /\ UNCHANGED << lsnVars, conf, stages, authRet, reqRet >>
    /\ UNCHANGED << authVars, reqVars, relayVars >>

(***************************************************************************)
(* The peers.                                                              *)
(***************************************************************************)
\* the client resets its connection
ClientReset ==
    /\ pc # "Done"
    /\ clientUp
    /\ clientUp' = FALSE
    /\ UNCHANGED << client, clientCloses, reads, out, buf >>
    /\ UNCHANGED << lsnVars, ctlVars, authVars, reqVars, destVars, relayVars >>

\* the destination resets its connection
DestReset ==
    /\ dest = "open"
    /\ destUp
    /\ destUp' = FALSE
    /\ UNCHANGED << server, dest, destCloses >>
    /\ UNCHANGED << lsnVars, ctlVars, ioVars, authVars, reqVars, relayVars >>

(***************************************************************************)
(* The session.                                                            *)
(***************************************************************************)
Auth ==
    \/ AuthVer \/ AuthNMethods \/ AuthMethods \/ AuthSelect \/ AuthSubVer
    \/ AuthULen \/ AuthUser \/ AuthPLen \/ AuthPass \/ AuthVerify
    \/ AuthReadFails

Req ==
    \/ ReqHeader \/ ReqAddr \/ ReqDialOk \/ ReqDialFails
    \/ ReqWriteRes \/ ReqWriteAddr \/ ReqReadFails

Relay ==
    \/ Run \/ CopyRead \/ CopyReadEOF \/ CopyReadErr \/ CopyWrite
    \/ C2SFlush \/ C2SRead \/ C2SReadEOF \/ C2SReadErr \/ C2SWrite

Next == Auth \/ Req \/ Relay \/ Close \/ ClientReset \/ DestReset

Spec == Init /\ [][Next]_vars

(***************************************************************************)
(* The steps the handler takes on its own: writes, the dial, Close, and    *)
(* reads that fail at once on a connection that is reset or closed.  The   *)
(* Go scheduler runs every task that can run; a read that waits for a peer *)
(* is not among them.                                                      *)
(***************************************************************************)
Internal ==
    \/ AuthSelect \/ AuthVerify
    \/ ReqDialOk \/ ReqDialFails \/ ReqWriteRes \/ ReqWriteAddr
    \/ Run \/ CopyReadErr \/ CopyWrite
    \/ C2SFlush \/ C2SReadErr \/ C2SWrite
    \/ Close

FairSpec == Init /\ [][Next]_vars /\ WF_vars(Internal)

\* the steps of the client->destination copy task that wait for no peer
CopyTask == C2SFlush \/ C2SReadErr \/ C2SWrite

\* the scheduler runs the copy task whenever it can run; nothing is assumed
\* of the session task
CopyFairSpec == Init /\ [][Next]_vars /\ WF_vars(CopyTask)

(***************************************************************************)
(* TCPConn.Close is exported: a caller other than runTCPConn's defer, such *)
(* as a relay direction, invokes it once more, during the relay or after.  *)
(***************************************************************************)
\* most invocations of Close on one session
MaxCloseCalls == 3

CloseAgain ==
    /\ "Run" \in Range(stages)
    /\ closeCalls < MaxCloseCalls
    /\ CloseBody
    /\ UNCHANGED << lsnVars, conf, pc, stages, authRet, reqRet >>
    /\ UNCHANGED << authVars, reqVars, relayVars >>

NextClose == Next \/ CloseAgain

SpecClose == Init /\ [][NextClose]_vars

(***************************************************************************)
(* runTCPListener, main.go lines 43-85, with the sessions it starts taken  *)
(* as tasks that run and end.  The session of the specifications above is  *)
(* left where Init puts it.                                                *)
(***************************************************************************)
\* sessions accepted so far
Accepted == Cardinality({ i \in 1..MaxSessions : sess[i] # "none" })

\* main.go lines 159-166: a termination signal arrives and cancel() is called
Cancel ==
    /\ ctx = "live"
    /\ ctx' = "done"
    /\ UNCHANGED << lsn, lpc, wg, sess >>
    /\ UNCHANGED connVars

\* lines 50-54: the task waiting on ctx.Done() closes the listener
ListenerClose ==
    /\ ctx = "done" /\ lsn = "open"
    /\ lsn' = "closed"
    /\ UNCHANGED << ctx, lpc, wg, sess >>
    /\ UNCHANGED connVars

\* lines 59 and 73-81: Accept returns a connection; wg.Add(1) and the
\* session task is started
Accept ==
    /\ lpc = "accept" /\ lsn = "open"
    /\ Accepted < MaxSessions
    /\ wg' = wg + 1
    /\ sess' = [sess EXCEPT ![Accepted + 1] = "running"]
    /\ UNCHANGED << ctx, lsn, lpc >>
    /\ UNCHANGED connVars

\* lines 59-70: Accept returns an error, as it does on a closed listener and
\* as it can on an open one; the loop ends if ctx is done and otherwise
\* sleeps
AcceptFails ==
    /\ lpc = "accept"
    /\ lpc' = (IF ctx = "done" THEN "wait" ELSE "sleep")
    /\ UNCHANGED << ctx, lsn, wg, sess >>
    /\ UNCHANGED connVars

\* lines 68-69: the sleep ends and the loop goes round
Slept ==
    /\ lpc = "sleep"
    /\ lpc' = "accept"
    /\ UNCHANGED << ctx, lsn, wg, sess >>
    /\ UNCHANGED connVars

\* runTCPConn, lines 30-41: a session task returns; it holds no reference
\* to wg and calls no wg.Done()
SessionEnds ==
    /\ \E i \in 1..MaxSessions :
          /\ sess[i] = "running"
          /\ sess' = [sess EXCEPT ![i] = "done"]
    /\ UNCHANGED << ctx, lsn, lpc, wg >>
    /\ UNCHANGED connVars

\* line 84: wg.Wait() returns when the counter is zero, and runTCPListener
\* with it
Wait ==
    /\ lpc = "wait"
    /\ wg = 0
    /\ lpc' = "returned"
    /\ UNCHANGED << ctx, lsn, wg, sess >>
    /\ UNCHANGED connVars

ListenerNext ==
    \/ Cancel \/ ListenerClose
    \/ Accept \/ AcceptFails \/ Slept
    \/ SessionEnds \/ Wait

ListenerSpec == Init /\ [][ListenerNext]_vars


(***************************************************************************)
(* Properties.                                                             *)
(***************************************************************************)
\* Auth's locals still hold what Auth left in them
AuthLocalsLive == \A i \in 1..Len(reads) : reads[i] # "REQ"

\* ver, methods and method still hold what the greeting left in them
GreetingLive == reads # <<>> /\ \A i \in 1..Len(reads) : reads[i] # "AUTHVER"

\* the credential scan has run and its locals are still there
Verified == verifyCalls > 0 /\ AuthLocalsLive

\* some configured user has both the presented username and password
SomeUserMatches ==
    \E i \in 1..Len(conf) :
        conf[i].Username = username /\ conf[i].Password = password

StageOrders ==
    { << "Auth" >>, << "Auth", "Close" >>, << "Auth", "Req" >>,
      << "Auth", "Req", "Close" >>, << "Auth", "Req", "Run" >>,
      << "Auth", "Req", "Run", "Close" >> }

\* C1: the stages of a session occur in the order Auth, Req, Run, Close, a
\* failed stage is followed by Close alone, and Run is entered only after
\* Auth returned true (status 01 00 written) and Req returned true (a
\* destination connection opened and stored).
C1_StagesInOrder ==
    /\ stages \in StageOrders
    /\ authRet = "false" => stages = << "Auth", "Close" >>
    /\ reqRet = "false" => stages = << "Auth", "Req", "Close" >>
    /\ "Req" \in Range(stages) =>
          authRet = "true" /\ Len(out) >= 4 /\ SubSeq(out, 3, 4) = << 1, 0 >>
    /\ "Run" \in Range(stages) =>
          /\ authRet = "true" /\ reqRet = "true"
          /\ SubSeq(out, 3, 4) = << 1, 0 >>
          /\ dialRes = "ok" /\ server = "set" /\ dest # "none"
    /\ c2s # "idle" => "Run" \in Range(stages)
    /\ pc \in {"CopyRead", "CopyWrite"} => stages = << "Auth", "Req", "Run" >>

C1_Witness ==
    pc = "CopyRead" /\ stages = << "Auth", "Req", "Run" >> /\ c2s = "read"

\* C2: a destination connection that was opened is closed exactly once by
\* the time the session has ended, on every exit path.
C2_DestClosedOnce ==
    /\ destCloses <= 1
    /\ (pc = "Done" /\ dialRes = "ok") => destCloses = 1

\* one relay direction has met the end of its stream or an error
DirectionEnded ==
    /\ "Run" \in Range(stages)
    /\ c2s = "done" \/ pc \in {"Close", "Done"}

\* both tasks have ended and both connections are released, once each
TornDown ==
    /\ pc = "Done" /\ c2s = "done"
    /\ clientCloses = 1 /\ destCloses = 1

\* C3: once either relay direction has ended, the relay completes, the
\* other direction ends too and both connections are closed, each exactly
\* once, with no further step of a peer needed.
C3_EitherEndTearsDown ==
    /\ [](clientCloses <= 1 /\ destCloses <= 1)
    /\ DirectionEnded ~> TornDown

\* the destination->client direction ending does tear the session down
C3_MainEndTearsDown ==
    ("Run" \in Range(stages) /\ pc \in {"Close", "Done"}) ~> TornDown

\* C4: after a failed dial the reply written to the client is the 10-byte
\* frame 05 01 00 01 00 00 00 00 00 00.
C4_DialFailureFrame ==
    (dialRes = "err" /\ Len(out) > 4) =>
        SubSeq(out, 5, Len(out)) = << 5, 1, 0, 1, 0, 0, 0, 0, 0, 0 >>

\* C5: after a failed dial a reply with reply code 1 is written (and reaches
\* a client that has not reset its connection), Req returns false, the
\* relay never begins, no second dial is made and the session closes the
\* client stream.
C5_DialFailure ==
    dialRes = "err" =>
        /\ reqRet = "false"
        /\ pc \in {"Close", "Done"}
        /\ dials = 1
        /\ "Run" \notin Range(stages) /\ c2s = "idle" /\ toDest = <<>>
        /\ clientUp => Len(out) > 4
        /\ Len(out) > 4 => (out[5] = 5 /\ out[6] = 1)
        /\ pc = "Done" => (clientCloses = 1 /\ client = "closed")

C5_Witness ==
    dialRes = "err" /\ pc = "Done" /\ Len(out) > 4 /\ clientCloses = 1

C7_VerifyIffMatch ==
    Verified =>
        /\ scan.found <=> SomeUserMatches
        /\ authRet = "true" => SomeUserMatches
        /\ Len(out) >= 4 => out[4] = (IF SomeUserMatches THEN 0 ELSE 1)
        /\ (clientUp /\ SomeUserMatches) => authRet = "true"

\* the username of one entry presented with the password of another
C7_Witness ==
    /\ Verified /\ ~scan.found /\ authRet = "false" /\ Len(out) = 4
    /\ \E i \in 1..Len(conf) : conf[i].Username = username
    /\ \E j \in 1..Len(conf) : conf[j].Password = password

\* C8: the scan compares the username and then the password of every
\* configured entry, in order, wherever a match occurs.
C8_FullScan ==
    Verified =>
        scan.log = [k \in 1..(2 * Len(conf)) |->
                       << (k + 1) \div 2,
                          IF k % 2 = 1 THEN "username" ELSE "password" >>]

\* the first of two entries matches
C8_Witness ==
    /\ Verified /\ scan.found /\ Len(conf) = 2
    /\ conf[1].Username = username /\ conf[1].Password = password
    /\ Len(scan.log) = 4

\* C9: to a version 5 greeting the method reply is 05 02 exactly when 2 is
\* among the offered methods and 05 FF otherwise; after 05 FF the session
\* aborts, reads nothing more and does not run the credential scan.
C9_MethodReply ==
    /\ (Len(out) >= 2 /\ GreetingLive) =>
          /\ ver = 5
          /\ method = out[2]
          /\ out[1] = 5
          /\ out[2] = (IF 2 \in Range(methods) THEN 2 ELSE 255)
    /\ (Len(out) >= 2 /\ out[2] = 255) =>
          /\ out = << 5, 255 >>
          /\ reads = << "VER", "NMETHODS", "METHODS" >>
          /\ pc \in {"Close", "Done"} /\ authRet = "false"
          /\ verifyCalls = 0 /\ dials = 0
          /\ c2s = "idle" /\ csent = 0

\* two methods are offered and neither is 2
C9_Witness ==
    out = << 5, 255 >> /\ Len(methods) = 2 /\ pc = "Done"

\* C10: after a greeting whose version is not 5 the session aborts with
\* nothing written and nothing more read, and closes the client stream.
C10_BadVersion ==
    (GreetingLive /\ ver # 5) =>
        /\ reads = << "VER" >>
        /\ out = <<>>
        /\ pc \in {"Close", "Done"} /\ authRet = "false"
        /\ verifyCalls = 0 /\ dials = 0
        /\ c2s = "idle" /\ csent = 0
        /\ pc = "Done" => (clientCloses = 1 /\ client = "closed")

C10_Witness ==
    ver = 4 /\ reads = << "VER" >> /\ pc = "Done" /\ clientCloses = 1

\* the last protocol field read from the client
LastRead == IF reads = <<>> THEN "none" ELSE reads[Len(reads)]

\* Auth stopped at a sub-negotiation version other than 1
BadSubVer == AuthLocalsLive /\ LastRead = "AUTHVER" /\ ver # 1

\* Auth stopped at a username or password length of zero
ZeroLen == AuthLocalsLive /\ LastRead \in {"ULEN", "PLEN"} /\ len = 0

\* the scan ran and no configured entry has the presented credentials
NoMatch == Verified /\ ~SomeUserMatches

\* C11: credentials that match no entry get the status 01 01, after which
\* the session ends with no request read and no dial; matching credentials
\* get 01 00 and the session goes on to the request stage; the scan runs
\* at most once in a session.
C11_VerifyOutcome ==
    /\ verifyCalls <= 1
    /\ NoMatch =>
          /\ clientUp => Len(out) = 4
          /\ Len(out) >= 4 => out = << 5, 2, 1, 1 >>
          /\ authRet = "false" /\ pc \in {"Close", "Done"}
          /\ stages = << "Auth", "Close" >>
          /\ dials = 0 /\ c2s = "idle"
    /\ (Verified /\ SomeUserMatches /\ Len(out) >= 4) =>
          /\ out = << 5, 2, 1, 0 >>
          /\ authRet = "true"
          /\ stages \in { << "Auth", "Req" >>, << "Auth", "Req", "Close" >> }
    /\ ("REQ" \in Range(reads) \/ dials > 0) =>
          (Len(out) >= 4 /\ SubSeq(out, 3, 4) = << 1, 0 >>)

C11_Witness ==
    NoMatch /\ out = << 5, 2, 1, 1 >> /\ pc = "Done" /\ Len(conf) = 2

C13_ZeroLenNoScan ==
    /\ ZeroLen =>
          /\ verifyCalls = 0 /\ scan = NoScan
          /\ authRet = "false" /\ pc \in {"Close", "Done"}
          /\ stages = << "Auth", "Close" >>
          /\ "REQ" \notin Range(reads) /\ dials = 0
    /\ Verified => (username # <<>> /\ password # <<>>)

\* the password length is zero after a username was read
C13_Witness ==
    /\ ZeroLen /\ LastRead = "PLEN" /\ username # <<>>
    /\ pc = "Done" /\ verifyCalls = 0

\* Req's locals still hold what Req left in them
ReqLocalsLive == "REQ" \in Range(reads) /\ c2s = "idle"

\* C14: a request header whose version is not 5, command not 1, reserved
\* byte not 0 or address type not 1 ends Req with no reply written, no
\* address or port read and no dial.
C14_BadHeader ==
    (ReqLocalsLive /\ (req.Ver # 5 \/ req.Cmd # 1 \/ req.Rsv # 0 \/ req.Atyp # 1)) =>
        /\ out = << 5, 2, 1, 0 >>
        /\ LastRead = "REQ"
        /\ dials = 0 /\ dialRes = "none" /\ server = "nil"
        /\ reqRet = "false" /\ pc \in {"Close", "Done"}
        /\ c2s = "idle" /\ csent = 0

\* the command is BIND in an otherwise valid header
C14_Witness ==
    /\ ReqLocalsLive /\ req = [Ver |-> 5, Cmd |-> 2, Rsv |-> 0, Atyp |-> 1]
    /\ pc = "Done" /\ out = << 5, 2, 1, 0 >>

\* C15: the reply to a successful CONNECT is exactly 05 00 00 01, the four
\* bytes of the local IPv4 address of the new destination connection and
\* its local port as two bytes, high byte first; the address dialed is the
\* four address bytes of the request and the port its two port bytes
\* denote, high byte first.
C15_ConnectReply ==
    /\ (ReqLocalsLive /\ dials > 0) =>
          /\ dials = 1
          /\ dialed.IP = SubSeq(dstBytes, 1, 4)
          /\ dialed.Port \div 256 = dstBytes[5]
          /\ dialed.Port % 256 = dstBytes[6]
    /\ (ReqLocalsLive /\ reqRet = "true") =>
          /\ dialRes = "ok" /\ dest = "open"
          /\ Len(out) = 14
          /\ SubSeq(out, 5, 8) = << 5, 0, 0, 1 >>
          /\ SubSeq(out, 9, 12) = laddr.IP
          /\ out[13] \in 0..255 /\ out[14] \in 0..255
          /\ out[13] * 256 + out[14] = laddr.Port
    /\ "Run" \in Range(stages) =>
          (Len(out) >= 14 /\ SubSeq(out, 5, 8) = << 5, 0, 0, 1 >>)

\* port 443 was asked for and the connection's local port is 50000
C15_Witness ==
    /\ ReqLocalsLive /\ reqRet = "true" /\ pc = "Run"
    /\ dialed.Port = 443 /\ laddr.Port = 50000
    /\ SubSeq(out, 13, 14) = << 195, 80 >>

\* the payload bytes base+1 .. base+n, as a peer sends them
Payload(n, base) == [i \in 1..n |-> base + i]

\* what the client has received after the 14 bytes of the handshake
Relayed == IF Len(out) > 14 THEN SubSeq(out, 15, Len(out)) ELSE <<>>

\* C16: after a valid greeting, matching credentials and a CONNECT that was
\* dialed and answered, the session is in the relay, and what either peer
\* sends reaches the other unchanged and in order, with nothing added,
\* dropped or repeated, for as long as that direction runs.
C16_RelayFaithful ==
    /\ reqRet = "true" =>
          (authRet = "true" /\ stages \in { << "Auth", "Req", "Run" >>,
                                           << "Auth", "Req", "Run", "Close" >> })
    /\ Len(toDest) <= csent /\ toDest = Payload(Len(toDest), 0)
    /\ c2s = "read" => toDest = Payload(csent, 0)
    /\ c2s = "write" =>
          (chunkC # <<>> /\ toDest \o chunkC = Payload(csent, 0))
    /\ Len(Relayed) <= ssent /\ Relayed = Payload(Len(Relayed), 100)
    /\ pc = "CopyRead" => Relayed = Payload(ssent, 100)
    /\ pc = "CopyWrite" =>
          (chunkS # <<>> /\ Relayed \o chunkS = Payload(ssent, 100))

\* both peers have sent all they had and each has received the other's
C16_Witness ==
    /\ pc = "CopyRead" /\ c2s = "read"
    /\ toDest = Payload(MaxPayload, 0) /\ Relayed = Payload(MaxPayload, 100)

\* C17: what the client has received is always a prefix of the method
\* reply, the status reply, the 10-byte request reply and then the bytes of
\* the destination, in that order; no byte of the destination is passed on
\* before the success reply is complete, and no byte of the client is
\* passed to the destination before Auth succeeded and that reply is
\* complete.
C17_ClientStream ==
    /\ Len(out) >= 1 => out[1] = 5
    /\ Len(out) >= 2 => out[2] \in {2, 255}
    /\ Len(out) > 2 =>
          (out[2] = 2 /\ Len(out) >= 4 /\ out[3] = 1 /\ out[4] \in {0, 1})
    /\ Len(out) > 4 =>
          /\ out[4] = 0 /\ Len(out) >= 8
          /\ out[5] = 5 /\ out[6] \in {0, 1} /\ out[7] = 0 /\ out[8] = 1
    /\ Len(out) > 8 =>
          /\ out[6] = 0 /\ Len(out) >= 14
          /\ \A i \in 9..14 : out[i] \in 0..255
    /\ Len(out) > 14 =>
          (reqRet = "true" /\ Relayed = Payload(Len(out) - 14, 100))
    /\ (ssent > 0 \/ chunkS # <<>>) => (reqRet = "true" /\ Len(out) >= 14)
    /\ (toDest # <<>> \/ chunkC # <<>>) =>
          /\ authRet = "true" /\ reqRet = "true"
          /\ Len(out) >= 14
          /\ SubSeq(out, 3, 4) = << 1, 0 >> /\ SubSeq(out, 5, 8) = << 5, 0, 0, 1 >>

C17_Witness ==
    Len(out) = 14 + MaxPayload /\ toDest # <<>> /\ pc = "CopyRead"

\* C18: no payload of the client is lost where the handshake ends and the
\* relay begins: what clientR had already buffered stays buffered until
\* the copy task starts, and is the first thing, in order, that the
\* destination receives.
C18_BufferedFirst ==
    /\ c2s \in {"idle", "flush"} =>
          (toDest = <<>> /\ buf = Payload(ahead, 0) /\ csent = ahead)
    /\ c2s \in {"read", "write"} =>
          /\ buf = <<>>
          /\ Len(toDest) >= ahead
          /\ SubSeq(toDest, 1, ahead) = Payload(ahead, 0)
    /\ toDest # <<>> => toDest[1] = 1

\* a buffered byte was delivered and the next one was then read
C18_Witness ==
    ahead = MaxAhead /\ c2s = "write" /\ toDest = Payload(ahead, 0) /\ chunkC # <<>>

\* Close has run while the client->destination copy task was still going
ClosedUnderTask == pc = "Done" /\ c2s \in {"flush", "read", "write"}

\* C19: once Close has closed both connections the client->destination
\* copy task reads nothing more from the client and writes nothing more to
\* the destination, and it ends.
C19_CopyTaskEnds ==
    /\ [][closeCalls >= 1 =>
            (toDest' = toDest /\ csent' = csent /\ c2s' # "write")]_vars
    /\ ClosedUnderTask ~> (c2s = "done")

\* the session task is done and the copy task is still blocked in its read
C19_Witness ==
    ClosedUnderTask /\ c2s = "read" /\ client = "closed" /\ dest = "closed"

\* every accepted session has returned
AllSessionsEnded == \A i \in 1..MaxSessions : sess[i] # "running"

\* C20: once ctx is cancelled and the listener's accept loop has ended, no
\* further session is admitted, and when every accepted session has
\* finished wg.Wait() can complete (its counter is zero) so that
\* runTCPListener returns, however many sessions were accepted.
C20_ListenerReturns ==
    /\ lpc \in {"wait", "returned"} => ctx = "done"
    /\ (lpc = "wait" /\ AllSessionsEnded) => wg = 0

====
